---- MODULE Spec2Model ----
(***************************************************************************)
(* Model of the GeoJSON API route of the OmniSpatial viewer                *)
(* (viewer/pages/api/geojson.ts): the request handler, the pipeline        *)
(* buildFeatureCollection with its suspension points, and the process-wide *)
(* response cache.                                                         *)
(*                                                                         *)
(* Representation.  A JavaScript string is a sequence of one-character     *)
(* strings, so that concatenation (the cache key), startsWith, URL parsing *)
(* and Number() are computed character by character.  A JavaScript number  *)
(* is a record [nan, v10] whose v10 is the value in tenths, so that one    *)
(* fractional digit is representable.  A query parameter is a record       *)
(* [t, v]: t is "undefined", "string" or "array" and v the list of its     *)
(* strings.                                                                *)
(***************************************************************************)
EXTENDS Integers, Sequences, FiniteSets, TLC

(***************************************************************************)
(* Program constants                                                       *)
(***************************************************************************)
CACHE_TTL_MS == 60 * 1000

MAX_LIMIT == 2000

(***************************************************************************)
(* Bounds of the model                                                     *)
(***************************************************************************)
\* invocations of handler that exist at the same time; a finished one is
\* kept, with its response, until its place is taken by a new request
MaxRequests == 2

\* clock advances in one behaviour (each by TickMs)
MaxTicks == 2

\* keys the cache may hold before the environment stops sending requests
\* that would add one
MaxKeys == 2

\* revisions of the remote bundle (rows appended upstream) in one behaviour
MaxRev == 1

\* the loads a viewer component starts in a behaviour
MaxLoads == 3

\* one clock advance: half the freshness window, so that the differences
\* now - timestamp reach 0, TTL/2, TTL (the boundary) and beyond
TickMs == CACHE_TTL_MS \div 2

(***************************************************************************)
(* Strings                                                                 *)
(***************************************************************************)
Min(a, b) == IF a <= b THEN a ELSE b

Digits == {"0", "1", "2", "3", "4", "5", "6", "7", "8", "9"}

DigitVal(c) ==
  CASE c = "0" -> 0 [] c = "1" -> 1 [] c = "2" -> 2 [] c = "3" -> 3
    [] c = "4" -> 4 [] c = "5" -> 5 [] c = "6" -> 6 [] c = "7" -> 7
    [] c = "8" -> 8 [] c = "9" -> 9

Letters == {"a", "b", "c", "d", "e", "f", "g", "h", "i", "j", "k", "l", "m",
            "n", "o", "p", "q", "r", "s", "t", "u", "v", "w", "x", "y", "z"}

\* position of the first occurrence of c in s, 0 when there is none
IndexOf(s, c) ==
  IF \E i \in 1..Len(s) : s[i] = c
  THEN CHOOSE i \in 1..Len(s) : s[i] = c /\ \A j \in 1..(i - 1) : s[j] # c
  ELSE 0

\* s from position i on
From(s, i) == SubSeq(s, i, Len(s))

\* Array.prototype.join(",") of a list of strings
RECURSIVE Join(_)
Join(a) ==
  IF a = <<>> THEN <<>>
  ELSE IF Len(a) = 1 THEN a[1]
  ELSE a[1] \o <<",">> \o Join(Tail(a))

(***************************************************************************)
(* Query parameters of request.query: undefined, a string, or an array of  *)
(* strings when the parameter is repeated                                  *)
(***************************************************************************)
Undefined == [t |-> "undefined", v |-> <<>>]

Str(s) == [t |-> "string", v |-> <<s>>]

Arr(a) == [t |-> "array", v |-> a]

\* typeof p === "string" ? p : undefined
StringOrUndefined(p) == IF p.t = "string" THEN p ELSE Undefined

\* `${p ?? ""}`: a template literal joins an array with ","
TemplateText(p) ==
  CASE p.t = "undefined" -> <<>>
    [] p.t = "string" -> p.v[1]
    [] p.t = "array" -> Join(p.v)

\* a test that takes every string, the empty one too, as present
TruthyAnyString(p) == p.t = "string"

\* truthiness of a string-or-undefined value: a non-empty string
Truthy(p) == p.t = "string" /\ p.v[1] # <<>>

(***************************************************************************)
(* Numbers: Number(x) for the strings over digits, "-", "." and other      *)
(* characters without white space, exponent or radix prefix                *)
(***************************************************************************)
NaN == [nan |-> TRUE, v10 |-> 0]

Num(n) == [nan |-> FALSE, v10 |-> 10 * n]

RECURSIVE DecimalValue(_)
DecimalValue(ds) ==
  IF ds = <<>> THEN 0
  ELSE 10 * DecimalValue(SubSeq(ds, 1, Len(ds) - 1)) + DigitVal(ds[Len(ds)])

AllDigits(ds) == \A i \in 1..Len(ds) : ds[i] \in Digits

\* an unsigned decimal literal with at most one fractional digit, in tenths;
\* -1 when the text is no such literal
UnsignedTenths(s) ==
  LET dot == IndexOf(s, ".") IN
  IF dot = 0
  THEN IF s # <<>> /\ AllDigits(s) THEN 10 * DecimalValue(s) ELSE -1
  ELSE LET ip == SubSeq(s, 1, dot - 1)
           fp == From(s, dot + 1)
       IN IF AllDigits(ip) /\ AllDigits(fp) /\ Len(fp) <= 1 /\ Len(ip) + Len(fp) > 0
          THEN 10 * DecimalValue(ip) + DecimalValue(fp)
          ELSE -1

\* Number(p) of a string-or-undefined value
Number(p) ==
  IF p.t # "string" THEN NaN
  ELSE LET s == p.v[1] IN
    IF s = <<>> THEN Num(0)
    ELSE LET neg == s[1] = "-"
             body == IF s[1] \in {"-", "+"} THEN Tail(s) ELSE s
             u == UnsignedTenths(body)
         IN IF u < 0 THEN NaN
            ELSE [nan |-> FALSE, v10 |-> IF neg THEN 0 - u ELSE u]

\* x || y for numbers: NaN and 0 are falsy
OrElse(x, y) == IF x.nan \/ x.v10 = 0 THEN y ELSE x

\* Math.min of two numbers, neither NaN
MathMin(x, y) == [nan |-> FALSE, v10 |-> Min(x.v10, y.v10)]

IsInteger(x) == ~x.nan /\ x.v10 % 10 = 0

(***************************************************************************)
(* assertHttpUrl: new URL(raw) for strings over lower-case letters,        *)
(* digits, ":", "/", "|", "." and "-" (no white space, "@", "?", "#",      *)
(* "\" or upper case), then the protocol test                              *)
(***************************************************************************)
SpecialSchemes == {<<"h", "t", "t", "p">>, <<"h", "t", "t", "p", "s">>}

\* the forbidden host code points of the alphabet
ForbiddenHost == {"|"}

RECURSIVE SkipSlashes(_)
SkipSlashes(s) ==
  IF s # <<>> /\ s[1] = "/" THEN SkipSlashes(Tail(s)) ELSE s

\* the part of s before the first occurrence of c (all of s when none)
Before(s, c) ==
  IF IndexOf(s, c) = 0 THEN s ELSE SubSeq(s, 1, IndexOf(s, c) - 1)

\* new URL(raw) without a base: [ok, protocol]
ParseURL(raw) ==
  LET colon == IndexOf(raw, ":")
      scheme == SubSeq(raw, 1, colon - 1)
      failure == [ok |-> FALSE, protocol |-> <<>>]
  IN
  IF colon <= 1 THEN failure
  ELSE IF ~(scheme[1] \in Letters
            /\ \A i \in 1..Len(scheme) : scheme[i] \in Letters \cup Digits \cup {"-", "."})
  THEN failure
  ELSE IF scheme \in SpecialSchemes
  THEN LET authority == Before(SkipSlashes(From(raw, colon + 1)), "/")
           host == Before(authority, ":")
           port == IF IndexOf(authority, ":") = 0 THEN <<>>
                   ELSE From(authority, IndexOf(authority, ":") + 1)
       IN IF host = <<>>
             \/ (\E i \in 1..Len(host) : host[i] \in ForbiddenHost)
             \/ ~AllDigits(port)
          THEN failure
          ELSE [ok |-> TRUE, protocol |-> scheme \o <<":">>]
  ELSE [ok |-> TRUE, protocol |-> scheme \o <<":">>]

\* the message assertHttpUrl throws, "ok" when it returns
assertHttpUrl(raw) ==
  LET parsed == ParseURL(raw) IN
  IF ~parsed.ok THEN "URL is not valid."
  ELSE IF parsed.protocol \notin {s \o <<":">> : s \in SpecialSchemes}
  THEN "Only http and https URLs are allowed."
  ELSE "ok"

(***************************************************************************)
(* The cache key of a request (handler, line 144)                          *)
(***************************************************************************)
cacheKey(url, tableName, limitParam) ==
  url \o <<"|">> \o TemplateText(tableName) \o <<"|">> \o TemplateText(limitParam)

\* the effective limit (buildFeatureCollection, lines 96-97)
limitCandidate(limitParam) ==
  IF limitParam.t = "array"
  THEN (IF limitParam.v = <<>> THEN Undefined ELSE Str(limitParam.v[1]))
  ELSE limitParam

EffectiveLimit(limitParam) ==
  MathMin(OrElse(Number(limitCandidate(limitParam)), Num(MAX_LIMIT)), Num(MAX_LIMIT))

(***************************************************************************)
(* Cell values of a column array: [t, n, s] with t one of "number" (n),    *)
(* "nan", "string" (s), "null", "undefined"                                *)
(***************************************************************************)
NumberCell(n) == [t |-> "number", n |-> n, s |-> <<>>]

NaNCell == [t |-> "nan", n |-> 0, s |-> <<>>]

StringCell(s) == [t |-> "string", n |-> 0, s |-> s]

NullCell == [t |-> "null", n |-> 0, s |-> <<>>]

UndefinedCell == [t |-> "undefined", n |-> 0, s |-> <<>>]

RECURSIVE TrimStart(_)
TrimStart(s) == IF s # <<>> /\ s[1] = " " THEN TrimStart(Tail(s)) ELSE s

RECURSIVE TrimEnd(_)
TrimEnd(s) ==
  IF s # <<>> /\ s[Len(s)] = " " THEN TrimEnd(SubSeq(s, 1, Len(s) - 1)) ELSE s

\* String.prototype.trim
Trim(s) == TrimEnd(TrimStart(s))

\* Number(v) of a cell that is not of type number: null is 0, undefined is
\* NaN, a string is its trimmed numeric value
CellToNumber(c) ==
  CASE c.t = "number" -> Num(c.n)
    [] c.t = "nan" -> NaN
    [] c.t = "null" -> Num(0)
    [] c.t = "undefined" -> NaN
    [] c.t = "string" -> Number(Str(Trim(c.s)))

(***************************************************************************)
(* Names used by the route and by the modelled bundle                      *)
(***************************************************************************)
POLYGON_WKT == <<"p", "o", "l", "y", "g", "o", "n", "_", "w", "k", "t">>

X == <<"x">>

Y == <<"y">>

ZATTRS == <<".", "z", "a", "t", "t", "r", "s">>

\* well-formed polygon text of the modelled bundle and the ring it parses to
WKT_TRIANGLE ==
  <<"P", "O", "L", "Y", "G", "O", "N", "(", "(", "0", " ", "0", ",", "1", " ",
    "0", ",", "1", " ", "1", ",", "0", " ", "0", ")", ")">>

\* text that the polygon parser rejects
WKT_BROKEN == <<"P", "O", "L", "Y", "G", "O", "N", "(", "(">>

\* well-formed text of a geometry that is not a polygon
WKT_LINE ==
  <<"L", "I", "N", "E", "S", "T", "R", "I", "N", "G", "(", "0", " ", "0", ",",
    "1", " ", "1", ")">>

\* text of white space only
WKT_BLANK == <<" ", " ">>

\* parseWkt: [ok, geometry]; a throw is ok = FALSE
NullGeometry == [type |-> "null", coordinates |-> <<>>]

\* the parser reads well-known text of every geometry type and returns the
\* geometry of the type the text names
parseWkt(text) ==
  IF text = WKT_TRIANGLE
  THEN [ok |-> TRUE,
        geometry |-> [type |-> "Polygon",
                      coordinates |-> <<<<Num(0), Num(0)>>, <<Num(1), Num(0)>>,
                                        <<Num(1), Num(1)>>, <<Num(0), Num(0)>>>>]]
  ELSE IF text = WKT_LINE
  THEN [ok |-> TRUE,
        geometry |-> [type |-> "LineString",
                      coordinates |-> <<<<Num(0), Num(0)>>, <<Num(1), Num(1)>>>>]]
  ELSE [ok |-> FALSE, geometry |-> NullGeometry]

(***************************************************************************)
(* geometryFromRow (lines 67-86).  A row is a function from column names   *)
(* to cells; a geometry is [type, coordinates] with coordinates the list   *)
(* of positions <<x, y>> (numbers): the one position of a Point, the ring  *)
(* of a Polygon.  NullGeometry is the null result.                         *)
(***************************************************************************)
Field(row, name) == IF name \in DOMAIN row THEN row[name] ELSE UndefinedCell

\* a resolver that falls back to the point when the polygon text is rejected
geometryFromRowFallback(row) ==
  LET wkt == Field(row, POLYGON_WKT)
      x == CellToNumber(Field(row, X))
      y == CellToNumber(Field(row, Y))
  IN
  IF wkt.t = "string" /\ Trim(wkt.s) # <<>> /\ parseWkt(Trim(wkt.s)).ok
  THEN parseWkt(Trim(wkt.s)).geometry
  ELSE IF ~x.nan /\ ~y.nan
  THEN [type |-> "Point", coordinates |-> <<<<x, y>>>>]
  ELSE NullGeometry

\* a resolver that writes the point as [y, x]
geometryFromRowSwapped(row) ==
  LET wkt == Field(row, POLYGON_WKT)
      x == CellToNumber(Field(row, X))
      y == CellToNumber(Field(row, Y))
  IN
  IF wkt.t = "string" /\ Trim(wkt.s) # <<>>
  THEN (IF parseWkt(Trim(wkt.s)).ok THEN parseWkt(Trim(wkt.s)).geometry
        ELSE NullGeometry)
  ELSE IF ~x.nan /\ ~y.nan
  THEN [type |-> "Point", coordinates |-> <<<<y, x>>>>]
  ELSE NullGeometry

geometryFromRow(row) ==
  LET wkt == Field(row, POLYGON_WKT)
      x == CellToNumber(Field(row, X))
      y == CellToNumber(Field(row, Y))
  IN
  IF wkt.t = "string" /\ Trim(wkt.s) # <<>>
  THEN (IF parseWkt(Trim(wkt.s)).ok THEN parseWkt(Trim(wkt.s)).geometry
        ELSE NullGeometry)
  ELSE IF ~x.nan /\ ~y.nan
  THEN [type |-> "Point", coordinates |-> <<<<x, y>>>>]
  ELSE NullGeometry

(***************************************************************************)
(* The remote store behind HTTPStore.  One bundle is served, at BUNDLE_URL;*)
(* every other http(s) URL answers "not found" to every item.  The bundle  *)
(* holds four tables:                                                      *)
(*   d  no declared column order; the column polygon_wkt found by listing; *)
(*      1 row plus one per upstream revision                               *)
(*   x  declared order <<x, y>>; 2 rows                                    *)
(*   b  declared order <<x, y>>; BigRows rows                              *)
(*   g  no declared order; columns polygon_wkt, x, y; GeometryRows rows,   *)
(*      one of each geometry case                                          *)
(*   n  no declared order; the column polygon_wkt, every row malformed     *)
(*   e  no declared order; a listing without any visible column           *)
(*   m  no .zattrs item under obs; the listing holds the columns x, y      *)
(*   u  declared order <<x, y>>; 2 rows, the x of the first one null       *)
(* A second URL, EMPTY_URL, serves a bundle whose tables root exists and   *)
(* holds no directory.                                                     *)
(***************************************************************************)
BUNDLE_URL == <<"h", "t", "t", "p", ":", "/", "/", "h">>

TABLE_D == <<"d">>

TABLE_X == <<"x">>

TABLE_B == <<"b">>

TABLE_G == <<"g">>

TABLE_N == <<"n">>

TABLE_E == <<"e">>

TABLE_M == <<"m">>

TABLE_U == <<"u">>

EMPTY_URL == <<"h", "t", "t", "p", ":", "/", "/", "t">>

\* rows of table g
GeometryRows == 6

\* rows of table b: more than MAX_LIMIT
BigRows == MAX_LIMIT + 10

Entry(name, kind) == [pathSegment |-> name, kind |-> kind]

\* store.containsItem("tables/.zgroup")
RemoteHasTables(url) == url \in {BUNDLE_URL, EMPTY_URL}

\* store.listDir("tables").children
RemoteTables(url) ==
  IF url = BUNDLE_URL
  THEN <<Entry(ZATTRS, "file"), Entry(TABLE_D, "dir"), Entry(TABLE_X, "dir"),
         Entry(TABLE_B, "dir"), Entry(TABLE_G, "dir"), Entry(TABLE_N, "dir"),
         Entry(TABLE_E, "dir"), Entry(TABLE_M, "dir"), Entry(TABLE_U, "dir")>>
  ELSE IF url = EMPTY_URL
  THEN <<Entry(ZATTRS, "file"), Entry(<<".", "z", "g", "r", "o", "u", "p">>, "file")>>
  ELSE <<>>

\* store.getItem("tables/<name>/obs/.zattrs"), parsed: [found, order] with
\* order the "column-order" attribute when it is an array, else <<>>
RemoteAttrs(url, name) ==
  IF url = BUNDLE_URL /\ name \in {TABLE_X, TABLE_B, TABLE_U}
  THEN [found |-> TRUE, order |-> <<X, Y>>]
  ELSE IF url = BUNDLE_URL /\ name \in {TABLE_D, TABLE_G, TABLE_N, TABLE_E}
  THEN [found |-> TRUE, order |-> <<>>]
  ELSE [found |-> FALSE, order |-> <<>>]

\* store.listDir("tables/<name>/obs").children
RemoteObs(url, name) ==
  IF url = BUNDLE_URL /\ name = TABLE_D
  THEN <<Entry(ZATTRS, "file"), Entry(<<"i">>, "dir"), Entry(<<".", "y">>, "array"),
         Entry(POLYGON_WKT, "dataset")>>
  ELSE IF url = BUNDLE_URL /\ name = TABLE_G
  THEN <<Entry(POLYGON_WKT, "array"), Entry(X, "array"), Entry(Y, "array")>>
  ELSE IF url = BUNDLE_URL /\ name = TABLE_X
  THEN <<Entry(Y, "array"), Entry(X, "array"), Entry(<<"z">>, "array")>>
  ELSE IF url = BUNDLE_URL /\ name = TABLE_N
  THEN <<Entry(ZATTRS, "file"), Entry(POLYGON_WKT, "array")>>
  ELSE IF url = BUNDLE_URL /\ name = TABLE_E
  THEN <<Entry(ZATTRS, "file"), Entry(<<".", "h">>, "array"), Entry(<<"s">>, "dir")>>
  ELSE IF url = BUNDLE_URL /\ name = TABLE_M
  THEN <<Entry(X, "array"), Entry(Y, "array")>>
  ELSE <<>>

\* array.shape[0] of tables/<name>/obs/<column> at upstream revision r,
\* -1 when there is no such array
RemoteShape(url, name, column, r) ==
  IF url # BUNDLE_URL THEN -1
  ELSE IF name = TABLE_D /\ column = POLYGON_WKT THEN 1 + r
  ELSE IF name = TABLE_X /\ column \in {X, Y} THEN 2
  ELSE IF name = TABLE_B /\ column \in {X, Y} THEN BigRows
  ELSE IF name = TABLE_G /\ column \in {POLYGON_WKT, X, Y} THEN GeometryRows
  ELSE IF name = TABLE_N /\ column = POLYGON_WKT THEN 2
  ELSE IF name = TABLE_M /\ column \in {X, Y} THEN 2
  ELSE IF name = TABLE_U /\ column \in {X, Y} THEN 2
  ELSE -1

\* the element at row index i (from 0) of tables/<name>/obs/<column>
RemoteCell(name, column, i) ==
  IF name = TABLE_G
  THEN CASE column = POLYGON_WKT ->
              (CASE i = 1 -> StringCell(WKT_TRIANGLE)
                 [] i = 2 -> StringCell(WKT_BROKEN)
                 [] i = 4 -> StringCell(WKT_LINE)
                 [] i = 5 -> StringCell(WKT_BLANK)
                 [] OTHER -> StringCell(<<>>))
         [] column = X -> (IF i = 3 THEN NaNCell ELSE NumberCell(i))
         [] OTHER -> NumberCell(i + 1)
  ELSE IF name = TABLE_N THEN StringCell(WKT_BROKEN)
  ELSE IF name = TABLE_U /\ column = X /\ i = 0 THEN NullCell
  ELSE IF column = POLYGON_WKT THEN StringCell(WKT_TRIANGLE)
  ELSE IF column = X THEN NumberCell(i)
  ELSE NumberCell(i + 1)

(***************************************************************************)
(* readColumn (lines 59-65): array.get([slice(0, end)]) normalises the     *)
(* slice against the array length as Python does (a negative stop counts   *)
(* from the end, a stop beyond the length is the length).  A fractional    *)
(* stop is outside the documented domain of slice: either neighbouring     *)
(* integer may take effect.                                                *)
(***************************************************************************)
SliceStop(e, total) ==
  IF e < 0 THEN (IF e + total < 0 THEN 0 ELSE e + total)
  ELSE IF e >= total THEN total ELSE e

\* the numbers of elements array.get([slice(0, end)]) may return
SliceCounts(end, total) ==
  IF IsInteger(end) THEN {SliceStop(end.v10 \div 10, total)}
  ELSE {SliceStop(end.v10 \div 10, total), SliceStop(end.v10 \div 10 + 1, total)}

\* the elements read: rows 0 .. n-1 of the column
ColumnPrefix(name, column, n) == [i \in 1..n |-> RemoteCell(name, column, i - 1)]

(***************************************************************************)
(* Feature assembly (lines 107-129)                                        *)
(***************************************************************************)
Range(seq) == {seq[i] : i \in 1..Len(seq)}

\* a row assembled from the other end of each column
RowAtFromEnd(columns, data, index) ==
  [c \in Range(columns) |->
     IF c \in DOMAIN data /\ index < Len(data[c]) THEN data[c][Len(data[c]) - index]
     ELSE UndefinedCell]

\* a row that takes its values from the first column only
RowAtSparse(columns, data, index) ==
  [c \in Range(columns) |->
     IF c = columns[1] /\ c \in DOMAIN data /\ index < Len(data[c]) THEN data[c][index + 1]
     ELSE UndefinedCell]

\* row[column] = data[column]?.[index]
RowAt(columns, data, index) ==
  [c \in Range(columns) |->
     IF c \in DOMAIN data /\ index < Len(data[c]) THEN data[c][index + 1]
     ELSE UndefinedCell]

Feature(row) == [type |-> "Feature", geometry |-> geometryFromRow(row), properties |-> row]

HasGeometry(f) == f.geometry.type # "null"

Features(columns, data) ==
  LET firstColumn == columns[1]
      rows == IF firstColumn \in DOMAIN data THEN Len(data[firstColumn]) ELSE 0
  IN SelectSeq([i \in 1..rows |-> Feature(RowAt(columns, data, i - 1))], HasGeometry)

\* a response body: a FeatureResponse, an {error} object, or none yet
NoBody == [type |-> "none", features |-> <<>>, columns |-> <<>>, error |-> ""]

ErrorBody(message) == [type |-> "error", features |-> <<>>, columns |-> <<>>, error |-> message]

\* a response that lists columns only when some row survived
FeatureResponseOfSurvivors(columns, data) ==
  [type |-> "FeatureCollection", features |-> Features(columns, data),
   columns |-> IF Features(columns, data) = <<>> THEN <<>> ELSE columns, error |-> ""]

FeatureResponse(columns, data) ==
  [type |-> "FeatureCollection", features |-> Features(columns, data),
   columns |-> columns, error |-> ""]

\* resolveColumns, the listing branch (lines 51-56)
ListedColumns(children) ==
  LET allowable == {"array", "dataset"}
      kept == SelectSeq(children, LAMBDA entry : entry.kind \in allowable)
      names == [i \in 1..Len(kept) |-> kept[i].pathSegment]
  IN SelectSeq(names, LAMBDA name : ~(name # <<>> /\ name[1] = "."))

\* the first entry of the listing, whatever its kind
FirstEntry(children) ==
  IF children = <<>> THEN <<>> ELSE children[1].pathSegment

\* getTableName, the listing branch (lines 31-36): the first entry of kind
\* "dir", <<>> standing for "none found"
FirstDir(children) ==
  IF \E i \in 1..Len(children) : children[i].kind = "dir"
  THEN children[CHOOSE i \in 1..Len(children) :
                  /\ children[i].kind = "dir"
                  /\ \A j \in 1..(i - 1) : children[j].kind # "dir"].pathSegment
  ELSE <<>>

(***************************************************************************)
(* The viewer page (viewer/pages/index.tsx)                                *)
(* A value that may be null or undefined is a sequence: <<>> for null,     *)
(* <<v>> for the value v.  Column names, property values and messages are  *)
(* strings; urls are sequences of characters, as above.                    *)
(***************************************************************************)
HexDigit(n) ==
  CASE n = 0 -> "0" [] n = 1 -> "1" [] n = 2 -> "2" [] n = 3 -> "3"
    [] n = 4 -> "4" [] n = 5 -> "5" [] n = 6 -> "6" [] n = 7 -> "7"
    [] n = 8 -> "8" [] n = 9 -> "9" [] n = 10 -> "a" [] n = 11 -> "b"
    [] n = 12 -> "c" [] n = 13 -> "d" [] n = 14 -> "e" [] n = 15 -> "f"

\* hslToHex (lines 29-41), in exact arithmetic: with K = 30 * k(n) and
\* M = 30 * max(-1, min(k(n) - 3, 9 - k(n), 1)), 255 * value is
\* (765000 * l - 255 * s * min(l, 100 - l) * M) / 300000, rounded half up
hslToHex(h, s, l) ==
  LET K(n) == (30 * n + h) % 360
      m(n) == Min(K(n) - 90, Min(270 - K(n), 30))
      M(n) == IF m(n) >= -30 THEN m(n) ELSE -30
      numerator(n) == 765000 * l - 255 * s * Min(l, 100 - l) * M(n)
      rounded(n) == (2 * numerator(n) + 300000) \div 600000
      f(n) == <<HexDigit(rounded(n) \div 16), HexDigit(rounded(n) % 16)>>
  IN <<"#">> \o f(0) \o f(8) \o f(4)

\* Array.from(new Set(values)): the values in the order of first occurrence
RECURSIVE Unique(_)
Unique(values) ==
  IF values = <<>> THEN <<>>
  ELSE LET rest == Unique(SubSeq(values, 1, Len(values) - 1))
           last == values[Len(values)]
       IN IF \E i \in 1..Len(rest) : rest[i] = last THEN rest ELSE Append(rest, last)

\* generateColorMap (lines 43-51)
generateColorMap(values) ==
  LET unique == Unique(values) IN
  [value \in {unique[i] : i \in 1..Len(unique)} |->
     hslToHex((((CHOOSE i \in 1..Len(unique) : unique[i] = value) - 1) * 137) % 360, 70, 55)]

\* normaliseValue (lines 53-58)
normaliseValue(value) == IF value = <<>> THEN "__missing" ELSE value[1]

\* feature.properties[column]: undefined when the feature has no such key
PropertyOf(feature, column) ==
  IF column \in DOMAIN feature.properties THEN feature.properties[column] ELSE <<>>

ViewerFeature(geometry, properties) == [geometry |-> geometry, properties |-> properties]

EmptyColorMap == [value \in {} |-> <<>>]

\* line 105
DefaultColumn(columns) ==
  IF \E i \in 1..Len(columns) : columns[i] = "gene" THEN <<"gene">>
  ELSE IF columns # <<>> THEN <<columns[1]>>
  ELSE <<>>

\* lines 108-109 and 128-129
ColorMapOf(features, column) ==
  generateColorMap([i \in 1..Len(features) |-> normaliseValue(PropertyOf(features[i], column))])

\* the datasets the page is pointed at, and what /api/geojson answers for
\* each when it answers 200: one with a gene column, one whose first column
\* has a null, one without columns
URL_A == <<"a">>

URL_B == <<"b">>

URL_C == <<"c">>

FeatureResponseFor(url) ==
  IF url = URL_A
  THEN [features |-> << ViewerFeature("Point", [cell |-> <<"1">>, gene |-> <<"g1">>]),
                        ViewerFeature("Point", [cell |-> <<"2">>, gene |-> <<"g2">>]) >>,
        columns |-> <<"cell", "gene">>]
  ELSE IF url = URL_B
  THEN [features |-> << ViewerFeature("Polygon", [cluster |-> <<"k">>]),
                        ViewerFeature("Polygon", [cluster |-> <<>>]),
                        ViewerFeature("null", [cluster |-> <<"k">>]) >>,
        columns |-> <<"cluster">>]
  ELSE [features |-> << ViewerFeature("null", [c \in {} |-> <<>>]) >>,
        columns |-> <<>>]

\* what the user types into the text field
TypedUrls == {<<>>, <<" ">>, URL_A, <<" ">> \o URL_A, URL_B, URL_C}

\* line 100
FailedToLoad(status) ==
  CASE status = 500 -> "Failed to load features (500)"
    [] status = 404 -> "Failed to load features (404)"

\* line 65 and line 136
OverlayText(url) == IF url # <<>> THEN <<"Viewing", url>> ELSE <<"Awaiting dataset", <<>>>>

\* an invocation of loadFeatures (lines 85-122): the activeUrl its closure
\* captured and the await it is suspended at; how it ended (outcome) and its
\* place in the order in which the invocations ended (order) are recorded
\* for the properties, the program does not keep them
FeatureLoad(url) == [url |-> url, pc |-> "fetch", outcome |-> "pending", order |-> 0]

\* the invocation i ends
Settle(loads, i, outcome) ==
  [loads EXCEPT ![i] = [@ EXCEPT !.pc = "done", !.outcome = outcome,
                                 !.order = 1 + Cardinality({k \in 1..Len(loads) : loads[k].order > 0})]]

\* the component's state after the first render (lines 62-73), loads being
\* the invocations of loadFeatures started so far
HomePage(initialUrl) ==
  [inputUrl |-> initialUrl, activeUrl |-> initialUrl, overlayText |-> OverlayText(initialUrl),
   loading |-> FALSE, features |-> <<>>, columns |-> <<>>, colorBy |-> <<>>,
   colorMap |-> EmptyColorMap, error |-> <<>>, loads |-> <<>>]

\* the effect of lines 126-131, which runs after a render in which colorBy
\* or features changed
RecolorEffect(old, new) ==
  IF (new.colorBy # old.colorBy \/ new.features # old.features) /\ new.colorBy # <<>>
  THEN [new EXCEPT !.colorMap = ColorMapOf(new.features, new.colorBy[1])]
  ELSE new

\* the effect of lines 84-124 up to its first await, run for the state p
\* after a render in which activeUrl changed (and after the first render)
LoadFeaturesEffect(p) ==
  IF p.activeUrl = <<>>
  THEN RecolorEffect(p, [p EXCEPT !.features = <<>>, !.columns = <<>>,
                                  !.colorBy = <<>>, !.colorMap = EmptyColorMap])
  ELSE [p EXCEPT !.loading = TRUE, !.error = <<>>,
                 !.loads = Append(p.loads, FeatureLoad(p.activeUrl))]

\* lines 103-112, then finally (line 120)
LoadSucceeded(p, data) ==
  LET defaultColumn == DefaultColumn(data.columns) IN
  RecolorEffect(p,
    [p EXCEPT !.features = data.features, !.columns = data.columns,
              !.colorBy = defaultColumn,
              !.colorMap = IF defaultColumn # <<>>
                           THEN ColorMapOf(data.features, defaultColumn[1])
                           ELSE EmptyColorMap,
              !.loading = FALSE])

\* a catch that sets the message and leaves what is displayed
LoadFailedKeeps(p, message) ==
  [p EXCEPT !.error = <<message>>, !.loading = FALSE]

\* catch (lines 113-118), then finally (line 120)
LoadFailed(p, message) ==
  RecolorEffect(p,
    [p EXCEPT !.error = <<message>>, !.features = <<>>, !.columns = <<>>,
              !.colorBy = <<>>, !.colorMap = EmptyColorMap, !.loading = FALSE])

(***************************************************************************)
(* The image canvas (viewer/components/VivCanvas.tsx)                      *)
(***************************************************************************)
\* the LoadedViewerState built at lines 92-98 from the loader of a url
LoadedViewerState(url) == <<[imageLayer |-> "primary", loader |-> url]>>

\* an invocation of load (lines 65-107): the url and the cancelled flag of
\* its effect run, and the await it is suspended at; the number of effect
\* runs there had been when it ended (endedUnder) is recorded for the
\* properties, the program does not keep it
ImageLoad(url) == [url |-> url, pc |-> "imports", cancelled |-> FALSE, endedUnder |-> 0]

\* the component before its first effect (lines 58-60)
VivCanvas(url) ==
  [url |-> url, mounted |-> TRUE, status |-> "idle", error |-> <<>>, state |-> <<>>,
   loads |-> <<>>]

\* a cleanup that leaves the flag of the previous effect run as it is
EffectCleanupKeeps(c) == c

\* the cleanup of the last effect run (lines 109-111)
EffectCleanup(c) ==
  IF c.loads = <<>> THEN c
  ELSE [c EXCEPT !.loads[Len(c.loads)].cancelled = TRUE]

\* the effect of lines 63-112 up to its first await
LoadEffect(c) ==
  IF c.url = <<>>
  THEN [c EXCEPT !.state = <<>>, !.status = "idle",
                 !.loads = Append(c.loads, [ImageLoad(c.url) EXCEPT !.pc = "done",
                                                    !.endedUnder = Len(c.loads) + 1])]
  ELSE [c EXCEPT !.status = "loading", !.error = <<>>,
                 !.loads = Append(c.loads, ImageLoad(c.url))]

(***************************************************************************)
(* State                                                                   *)
(*   CACHE  the module-level Map: key -> [timestamp, payload]; each entry  *)
(*          also records its writer (by) and the time of the write         *)
(*          (writtenAt), which the program does not keep                   *)
(*   clock  Date.now()                                                     *)
(*   rev    the upstream revision of the bundle                            *)
(*   req    the invocations of handler: for each its request, the locals   *)
(*          of handler and buildFeatureCollection, the suspension point    *)
(*          (pc), the response, the log of store calls it issued, and      *)
(*          whether its client has closed the connection (disconnected)    *)
(*   page   the state of the HomePage component and the invocations of     *)
(*          loadFeatures it has started                                    *)
(*   canvas the state of the VivCanvas component, its url prop and the     *)
(*          invocations of load it has started                             *)
(***************************************************************************)
VARIABLES CACHE, clock, rev, req, page, canvas

vars == <<CACHE, clock, rev, req, page, canvas>>

RequestIds == 1..MaxRequests

\* what produced a cache entry: the url, table override and effective limit
\* of the pipeline run that wrote it
Origin(url, tableName, limit) == [url |-> url, tableName |-> tableName, limit |-> limit]

NoEntry ==
  [timestamp |-> 0, payload |-> NoBody, by |-> Origin(<<>>, Undefined, NaN), writtenAt |-> 0]

Idle ==
  [pc |-> "idle", method |-> "GET", query |-> [url |-> Undefined, table |-> Undefined, limit |-> Undefined],
   url |-> <<>>, tableName |-> Undefined, cacheKey |-> <<>>, now |-> 0,
   name |-> <<>>, limit |-> NaN, columns |-> <<>>, column |-> 0, total |-> 0, end |-> NaN,
   data |-> [c \in {} |-> <<>>],
   status |-> 0, allow |-> "", body |-> NoBody,
   calls |-> <<>>, fromCache |-> FALSE, served |-> NoEntry, disconnected |-> FALSE]

Init ==
  /\ CACHE = [k \in {} |-> 0]
  /\ clock = 0
  /\ rev = 0
  /\ req = [r \in RequestIds |-> Idle]
  /\ page = LoadFeaturesEffect(HomePage(<<>>))
  /\ canvas = LoadEffect(VivCanvas(<<>>))

Pending == {"containsItem", "listTables", "getItem", "listObs", "openArray", "arrayGet"}

\* response.status(code).json(body) and return
Respond(rec, code, body) ==
  [rec EXCEPT !.pc = "done", !.status = code, !.body = body]

\* a store call is issued and the invocation suspends on it
Await(rec, call) == [rec EXCEPT !.pc = call, !.calls = Append(@, call)]

\* map[key] = entry of an object or a Map: the key is added or overwritten
MapSet(map, key, entry) ==
  [k \in DOMAIN map \cup {key} |-> IF k = key THEN entry ELSE map[k]]

\* a set that keeps an entry already present (the first writer would win)
CacheSetIfAbsent(map, key, entry) ==
  IF key \in DOMAIN map THEN map ELSE MapSet(map, key, entry)

\* CACHE.set(cacheKey, entry) (line 153)
CacheSet(map, key, entry) == MapSet(map, key, entry)

\* the comparison of the freshness test turned round
CacheFreshInverted(key, now) ==
  key \in DOMAIN CACHE /\ now - CACHE[key].timestamp > CACHE_TTL_MS

\* cached && now - cached.timestamp < CACHE_TTL_MS (line 147)
CacheFresh(key, now) ==
  key \in DOMAIN CACHE /\ now - CACHE[key].timestamp < CACHE_TTL_MS

(***************************************************************************)
(* handler up to its first suspension (lines 132-152, 89-91)               *)
(***************************************************************************)
\* a handler that looks the key up before it tests the method and the url
HandlerEntryLookupFirst(q) ==
  LET url == StringOrUndefined(q.url)
      tableName == StringOrUndefined(q.table)
      key == cacheKey(TemplateText(url), tableName, q.limit)
      rec == [Idle EXCEPT !.method = q.method, !.query = [url |-> q.url, table |-> q.table, limit |-> q.limit]]
      got == [rec EXCEPT !.url = TemplateText(url), !.tableName = tableName,
                         !.cacheKey = key, !.now = clock]
  IN
  IF CacheFresh(key, clock)
  THEN Respond([got EXCEPT !.fromCache = TRUE, !.served = CACHE[key]],
               200, CACHE[key].payload)
  ELSE IF q.method # "GET"
  THEN Respond([rec EXCEPT !.allow = "GET"], 405, ErrorBody("Method not allowed"))
  ELSE IF ~Truthy(url)
  THEN Respond(rec, 400, ErrorBody("Missing url query parameter"))
  ELSE IF assertHttpUrl(got.url) # "ok"
  THEN Respond(got, 500, ErrorBody(assertHttpUrl(got.url)))
  ELSE Await(got, "containsItem")

HandlerEntry(q) ==
  LET url == StringOrUndefined(q.url)
      tableName == StringOrUndefined(q.table)
      key == cacheKey(TemplateText(url), tableName, q.limit)
      rec == [Idle EXCEPT !.method = q.method, !.query = [url |-> q.url, table |-> q.table, limit |-> q.limit]]
      got == [rec EXCEPT !.url = TemplateText(url), !.tableName = tableName,
                         !.cacheKey = key, !.now = clock]
  IN
  IF q.method # "GET"
  THEN Respond([rec EXCEPT !.allow = "GET"], 405, ErrorBody("Method not allowed"))
  ELSE IF ~Truthy(url)
  THEN Respond(rec, 400, ErrorBody("Missing url query parameter"))
  ELSE IF CacheFresh(key, clock)
  THEN Respond([got EXCEPT !.fromCache = TRUE, !.served = CACHE[key]],
               200, CACHE[key].payload)
  ELSE IF assertHttpUrl(got.url) # "ok"
  THEN Respond(got, 500, ErrorBody(assertHttpUrl(got.url)))
  ELSE Await(got, "containsItem")

\* a request of the pool arrives and takes the first unused place among
\* ids, or that of a finished invocation when none is unused
StartFrom(pool, ids, r) ==
  /\ r \in ids
  /\ \/ req[r].pc = "idle" /\ \A s \in ids : s < r => req[s].pc # "idle"
     \/ req[r].pc = "done" /\ \A s \in ids : req[s].pc # "idle"
  /\ \E q \in pool :
       /\ HandlerEntry(q).pc \in Pending =>
            Cardinality(DOMAIN CACHE \cup {HandlerEntry(q).cacheKey}) <= MaxKeys
       /\ req' = [req EXCEPT ![r] = HandlerEntry(q)]
  /\ UNCHANGED <<CACHE, clock, rev, page, canvas>>

(***************************************************************************)
(* buildFeatureCollection between suspensions                              *)
(***************************************************************************)
\* lines 96-98: the limit, then resolveColumns up to store.getItem
AfterTableName(rec, name) ==
  Await([rec EXCEPT !.name = name, !.limit = EffectiveLimit(rec.query.limit)], "getItem")

\* lines 99-105: the column check, then readColumn of the first column up to openArray
AfterColumns(rec, columns) ==
  IF columns = <<>>
  THEN Respond(rec, 500, ErrorBody("No observation columns available."))
  ELSE Await([rec EXCEPT !.columns = columns, !.column = 1], "openArray")

\* store.containsItem returned (lines 91-95, 28-31)
ContainsItemDone(r) ==
  LET rec == req[r] IN
  /\ rec.pc = "containsItem"
  /\ req' = [req EXCEPT ![r] =
       IF ~RemoteHasTables(rec.url)
       THEN Respond(rec, 500, ErrorBody("Bundle does not contain tables."))
       ELSE IF Truthy(rec.tableName)
       THEN AfterTableName(rec, rec.tableName.v[1])
       ELSE Await(rec, "listTables")]
  /\ UNCHANGED <<CACHE, clock, rev, page, canvas>>

\* store.listDir("tables") returned (lines 31-36)
ListTablesDone(r) ==
  LET rec == req[r]
      child == FirstDir(RemoteTables(rec.url))
  IN
  /\ rec.pc = "listTables"
  /\ req' = [req EXCEPT ![r] =
       IF child = <<>>
       THEN Respond(rec, 500, ErrorBody("No AnnData tables found in bundle."))
       ELSE AfterTableName(rec, child)]
  /\ UNCHANGED <<CACHE, clock, rev, page, canvas>>

\* store.getItem(".zattrs") returned (lines 41-51)
GetItemDone(r) ==
  LET rec == req[r]
      attrs == RemoteAttrs(rec.url, rec.name)
  IN
  /\ rec.pc = "getItem"
  /\ req' = [req EXCEPT ![r] =
       IF ~attrs.found
       THEN Respond(rec, 500, ErrorBody("Unable to read AnnData observation metadata."))
       ELSE IF Len(attrs.order) > 0
       THEN AfterColumns(rec, attrs.order)
       ELSE Await(rec, "listObs")]
  /\ UNCHANGED <<CACHE, clock, rev, page, canvas>>

\* store.listDir(obsPath) returned (lines 51-56)
ListObsDone(r) ==
  LET rec == req[r] IN
  /\ rec.pc = "listObs"
  /\ req' = [req EXCEPT ![r] = AfterColumns(rec, ListedColumns(RemoteObs(rec.url, rec.name)))]
  /\ UNCHANGED <<CACHE, clock, rev, page, canvas>>

\* openArray returned (lines 60-63)
OpenArrayDone(r) ==
  LET rec == req[r]
      total == RemoteShape(rec.url, rec.name, rec.columns[rec.column], rev)
  IN
  /\ rec.pc = "openArray"
  /\ req' = [req EXCEPT ![r] =
       IF total < 0
       THEN Respond(rec, 500, ErrorBody("array not found"))
       ELSE Await([rec EXCEPT !.total = total, !.end = MathMin(rec.limit, Num(total))],
                  "arrayGet")]
  /\ UNCHANGED <<CACHE, clock, rev, page, canvas>>

\* array.get returned (lines 63-64); after the last column the features are
\* assembled, the entry is stored and the response sent (lines 107-129, 153-154)
ArrayGetDone(r) ==
  LET rec == req[r] IN
  /\ rec.pc = "arrayGet"
  /\ \E n \in SliceCounts(rec.end, rec.total) :
       LET column == rec.columns[rec.column]
           data == MapSet(rec.data, column, ColumnPrefix(rec.name, column, n))
           got == [rec EXCEPT !.data = data]
           payload == FeatureResponse(rec.columns, data)
       IN
       IF rec.column < Len(rec.columns)
       THEN /\ req' = [req EXCEPT ![r] = Await([got EXCEPT !.column = @ + 1], "openArray")]
            /\ UNCHANGED CACHE
       ELSE /\ CACHE' = CacheSet(CACHE, rec.cacheKey,
                                 [timestamp |-> rec.now, payload |-> payload,
                                  by |-> Origin(rec.url, rec.tableName, rec.limit),
                                  writtenAt |-> clock])
            /\ req' = [req EXCEPT ![r] = Respond(got, 200, payload)]
  /\ UNCHANGED <<clock, rev, page, canvas>>

\* a failed request that takes the entry at its key out of the cache
CallFailsEvicts(r) ==
  /\ req[r].pc \in Pending
  /\ req' = [req EXCEPT ![r] = Respond(req[r], 500, ErrorBody("fetch failed"))]
  /\ CACHE' = [k \in DOMAIN CACHE \ {req[r].cacheKey} |-> CACHE[k]]
  /\ UNCHANGED <<clock, rev, page, canvas>>

\* a rejected store call that nothing catches: no response is sent
CallFailsSilently(r) ==
  /\ req[r].pc \in Pending
  /\ req' = [req EXCEPT ![r] = [req[r] EXCEPT !.pc = "lost"]]
  /\ UNCHANGED <<CACHE, clock, rev, page, canvas>>

\* a rejected store call issued a second time before the request is given up
CallFailsRetry(r) ==
  /\ req[r].pc \in Pending
  /\ req' = [req EXCEPT ![r] =
       IF Cardinality({i \in 1..Len(req[r].calls) : req[r].calls[i] = req[r].pc}) < 2
       THEN Await(req[r], req[r].pc)
       ELSE Respond(req[r], 500, ErrorBody("fetch failed"))]
  /\ UNCHANGED <<CACHE, clock, rev, page, canvas>>

\* a failed column read answered with the features of the columns read so far
CallFailsPartial(r) ==
  /\ req[r].pc \in Pending
  /\ req' = [req EXCEPT ![r] =
       IF req[r].pc \in {"openArray", "arrayGet"} /\ req[r].column > 1
       THEN Respond(req[r], 200, FeatureResponse(req[r].columns, req[r].data))
       ELSE Respond(req[r], 500, ErrorBody("fetch failed"))]
  /\ UNCHANGED <<CACHE, clock, rev, page, canvas>>

\* a pending store call rejects (network failure): the catch of lines 155-157
CallFails(r) ==
  /\ req[r].pc \in Pending
  /\ req' = [req EXCEPT ![r] = Respond(req[r], 500, ErrorBody("fetch failed"))]
  /\ UNCHANGED <<CACHE, clock, rev, page, canvas>>

\* the client's closing of the connection ends the invocation at once,
\* without a response body and without a cache entry
OnClientCloseAborts(rec) ==
  [rec EXCEPT !.disconnected = TRUE, !.pc = "done", !.status = 499]

\* what the invocation does when its client closes the connection: handler
\* registers no listener on the request and passes no abort signal to the
\* store (lines 90, 152), so its locals and its suspension point are as before
OnClientClose(rec) == [rec EXCEPT !.disconnected = TRUE]

\* the client of a suspended invocation closes the connection
ClientCloses(r) ==
  /\ req[r].pc \in Pending
  /\ ~req[r].disconnected
  /\ req' = [req EXCEPT ![r] = OnClientClose(req[r])]
  /\ UNCHANGED <<CACHE, clock, rev, page, canvas>>

\* a clock advance with an expiry sweep: the entries that are stale at the
\* new time are taken out of the cache
TickExpiring ==
  /\ clock < MaxTicks * TickMs
  /\ clock' = clock + TickMs
  /\ CACHE' = [k \in {j \in DOMAIN CACHE : clock' - CACHE[j].timestamp < CACHE_TTL_MS}
                 |-> CACHE[k]]
  /\ UNCHANGED <<rev, req, page, canvas>>

\* time passes
Tick ==
  /\ clock < MaxTicks * TickMs
  /\ clock' = clock + TickMs
  /\ UNCHANGED <<CACHE, rev, req, page, canvas>>

\* the bundle is extended upstream
RemoteChange ==
  /\ rev < MaxRev
  /\ rev' = rev + 1
  /\ UNCHANGED <<CACHE, clock, req, page, canvas>>

Step(r) ==
  \/ ContainsItemDone(r)
  \/ ListTablesDone(r)
  \/ GetItemDone(r)
  \/ ListObsDone(r)
  \/ OpenArrayDone(r)
  \/ ArrayGetDone(r)
  \/ CallFails(r)

(***************************************************************************)
(* The requests the environment sends                                      *)
(***************************************************************************)
Request(method, url, table, limit) ==
  [method |-> method, url |-> url, table |-> table, limit |-> limit]

FILE_URL == <<"f", "i", "l", "e", ":", "/", "/", "/", "p">>

\* requests around one cache key: a request for the default table, a
\* request with another url that produces the same key, and the requests
\* refused before the pipeline
CachePool ==
  { Request("GET", Str(BUNDLE_URL), Undefined, Str(<<"|", "|">>)),
    Request("GET", Str(BUNDLE_URL \o <<"|", "|">>), Undefined, Undefined),
    Request("GET", Str(FILE_URL), Undefined, Undefined),
    Request("POST", Str(BUNDLE_URL), Undefined, Undefined),
    Request("GET", Undefined, Undefined, Undefined) }

Next ==
  \/ \E r \in RequestIds : StartFrom(CachePool, RequestIds, r)
  \/ \E r \in RequestIds : Step(r)
  \/ Tick
  \/ RemoteChange

Spec == Init /\ [][Next]_vars

(***************************************************************************)
(* The limit parameter: one invocation at a time against the unchanging    *)
(* bundle, for every shape of the limit parameter                          *)
(***************************************************************************)
LimitPool ==
  { Request("GET", Str(BUNDLE_URL), Str(TABLE_X), Undefined),
    Request("GET", Str(BUNDLE_URL), Str(TABLE_X), Str(<<>>)),
    Request("GET", Str(BUNDLE_URL), Str(TABLE_X), Str(<<"a", "b", "c">>)),
    Request("GET", Str(BUNDLE_URL), Str(TABLE_X), Str(<<"0">>)),
    Request("GET", Str(BUNDLE_URL), Str(TABLE_X), Str(<<"1">>)),
    Request("GET", Str(BUNDLE_URL), Str(TABLE_X), Str(<<"-", "1">>)),
    Request("GET", Str(BUNDLE_URL), Str(TABLE_X), Str(<<"1", ".", "5">>)),
    Request("GET", Str(BUNDLE_URL), Str(TABLE_X), Str(<<"2", "0", "0", "0">>)),
    Request("GET", Str(BUNDLE_URL), Str(TABLE_X), Str(<<"9", "9", "9", "9", "9", "9">>)),
    Request("GET", Str(BUNDLE_URL), Str(TABLE_X), Arr(<<<<"1">>, <<"2">>>>)),
    Request("GET", Str(BUNDLE_URL), Str(TABLE_X), Str(<<"1", ",", "2">>)),
    Request("GET", Str(BUNDLE_URL), Str(TABLE_B), Str(<<"9", "9", "9", "9", "9", "9">>)),
    Request("GET", Str(BUNDLE_URL), Str(TABLE_B), Str(<<"-", "5">>)),
    Request("GET", Str(BUNDLE_URL), Undefined, Undefined) }

NextLimit ==
  \/ StartFrom(LimitPool, {1}, 1)
  \/ Step(1)

SpecLimit == Init /\ [][NextLimit]_vars

(***************************************************************************)
(* The bundle layout and the rows: one invocation at a time, for every     *)
(* table of the modelled bundle, the bundles without tables, and the       *)
(* requests refused before the pipeline                                    *)
(***************************************************************************)
NO_TABLES_URL == <<"h", "t", "t", "p", ":", "/", "/", "o">>

TABLE_Q == <<"q">>

BundlePool ==
  { Request("GET", Str(BUNDLE_URL), Str(TABLE_G), Undefined),
    Request("GET", Str(BUNDLE_URL), Str(TABLE_N), Undefined),
    Request("GET", Str(BUNDLE_URL), Str(TABLE_E), Undefined),
    Request("GET", Str(BUNDLE_URL), Str(TABLE_M), Undefined),
    Request("GET", Str(BUNDLE_URL), Str(TABLE_X), Undefined),
    Request("GET", Str(BUNDLE_URL), Str(TABLE_Q), Undefined),
    Request("GET", Str(BUNDLE_URL), Str(TABLE_U), Undefined),
    Request("GET", Str(BUNDLE_URL), Undefined, Undefined),
    Request("GET", Str(BUNDLE_URL), Str(<<>>), Undefined),
    Request("GET", Str(BUNDLE_URL), Arr(<<TABLE_G, TABLE_X>>), Undefined),
    Request("GET", Str(EMPTY_URL), Undefined, Undefined),
    Request("GET", Str(EMPTY_URL), Str(TABLE_G), Undefined),
    Request("GET", Str(NO_TABLES_URL), Undefined, Undefined),
    Request("GET", Str(NO_TABLES_URL), Str(TABLE_G), Undefined),
    Request("GET", Str(FILE_URL), Undefined, Undefined),
    Request("GET", Undefined, Undefined, Undefined),
    Request("GET", Str(<<>>), Undefined, Undefined),
    Request("GET", Arr(<<BUNDLE_URL, BUNDLE_URL>>), Undefined, Undefined),
    Request("POST", Str(BUNDLE_URL), Undefined, Undefined),
    Request("POST", Undefined, Undefined, Undefined),
    Request("HEAD", Str(BUNDLE_URL), Str(TABLE_G), Undefined) }

NextBundle ==
  \/ StartFrom(BundlePool, {1}, 1)
  \/ Step(1)

SpecBundle == Init /\ [][NextBundle]_vars

\* the same, every pending store call being answered or rejected in the end
SpecLive == Init /\ [][NextBundle]_vars /\ WF_vars(Step(1))

(***************************************************************************)
(* Clients that go away: every place takes one request; the client of a    *)
(* suspended invocation may close its connection.  A store call that is    *)
(* pending is eventually answered or fails, and the continuation of the    *)
(* invocation then runs: weak fairness of the steps of each invocation.    *)
(***************************************************************************)
CancelPool ==
  { Request("GET", Str(BUNDLE_URL), Undefined, Undefined) }

StartOnce(r) == req[r].pc = "idle" /\ StartFrom(CancelPool, {r}, r)

NextCancel ==
  \/ \E r \in RequestIds : StartOnce(r)
  \/ \E r \in RequestIds : Step(r)
  \/ \E r \in RequestIds : ClientCloses(r)

SpecCancel ==
  Init /\ [][NextCancel]_vars /\ \A r \in RequestIds : WF_vars(Step(r))

(***************************************************************************)
(* The viewer page: the user types urls and submits the form; each fetch   *)
(* of /api/geojson is answered 200 or 500 or fails, and the body of a 200  *)
(* is read or fails to be read, in any order across the invocations.       *)
(***************************************************************************)
\* the text field's onChange (line 181)
TypeUrl(text) ==
  /\ text # page.inputUrl
  /\ page' = [page EXCEPT !.inputUrl = text]
  /\ UNCHANGED <<CACHE, clock, rev, req, canvas>>

\* the form's onSubmit: handleLoad (lines 133-140), then the effect of
\* lines 84-124 when the render changed activeUrl
HandleLoad ==
  LET trimmed == Trim(page.inputUrl)
      rendered == [page EXCEPT !.activeUrl = trimmed, !.overlayText = OverlayText(trimmed)]
  IN
  /\ trimmed # <<>> /\ trimmed # page.activeUrl => Len(page.loads) < MaxLoads
  /\ page' = IF trimmed # page.activeUrl THEN LoadFeaturesEffect(rendered) ELSE rendered
  /\ UNCHANGED <<CACHE, clock, rev, req, canvas>>

\* the Color by select's onChange (line 205), then the effect of lines 126-131
SelectColorBy(column) ==
  /\ \E i \in 1..Len(page.columns) : page.columns[i] = column
  /\ page' = RecolorEffect(page, [page EXCEPT !.colorBy = <<column>>])
  /\ UNCHANGED <<CACHE, clock, rev, req, canvas>>

\* fetch resolves (line 96): a response that is not ok throws (lines 99-101)
FetchResolves(i, status) ==
  /\ i <= Len(page.loads) /\ page.loads[i].pc = "fetch"
  /\ page' = IF status = 200
             THEN [page EXCEPT !.loads[i].pc = "json"]
             ELSE [LoadFailed(page, FailedToLoad(status))
                     EXCEPT !.loads = Settle(page.loads, i, "failed")]
  /\ UNCHANGED <<CACHE, clock, rev, req, canvas>>

\* fetch rejects: a network error
FetchRejects(i) ==
  /\ i <= Len(page.loads) /\ page.loads[i].pc = "fetch"
  /\ page' = [LoadFailed(page, "Failed to fetch")
                EXCEPT !.loads = Settle(page.loads, i, "failed")]
  /\ UNCHANGED <<CACHE, clock, rev, req, canvas>>

\* response.json() resolves (line 102)
JsonResolves(i) ==
  /\ i <= Len(page.loads) /\ page.loads[i].pc = "json"
  /\ page' = [LoadSucceeded(page, FeatureResponseFor(page.loads[i].url))
                EXCEPT !.loads = Settle(page.loads, i, "ok")]
  /\ UNCHANGED <<CACHE, clock, rev, req, canvas>>

\* response.json() rejects: the body is cut short
JsonRejects(i) ==
  /\ i <= Len(page.loads) /\ page.loads[i].pc = "json"
  /\ page' = [LoadFailed(page, "Unexpected end of JSON input")
                EXCEPT !.loads = Settle(page.loads, i, "failed")]
  /\ UNCHANGED <<CACHE, clock, rev, req, canvas>>

\* the page after its first render and the first run of its effects, the
\* router's query holding a url or none (line 62)
InitPage ==
  /\ CACHE = [k \in {} |-> 0]
  /\ clock = 0
  /\ rev = 0
  /\ req = [r \in RequestIds |-> Idle]
  /\ \E initialUrl \in {<<>>, URL_A} : page = LoadFeaturesEffect(HomePage(initialUrl))
  /\ canvas = LoadEffect(VivCanvas(<<>>))

NextPage ==
  \/ \E text \in TypedUrls : TypeUrl(text)
  \/ HandleLoad
  \/ \E column \in {"cell", "gene", "cluster"} : SelectColorBy(column)
  \/ \E i \in 1..MaxLoads : \E status \in {200, 500} : FetchResolves(i, status)
  \/ \E i \in 1..MaxLoads : FetchRejects(i)
  \/ \E i \in 1..MaxLoads : JsonResolves(i)
  \/ \E i \in 1..MaxLoads : JsonRejects(i)

SpecPage == InitPage /\ [][NextPage]_vars

(***************************************************************************)
(* The image canvas: the parent changes the url prop or unmounts the       *)
(* component; the imports and the loader of each invocation of load        *)
(* resolve or reject, in any order across the invocations.                 *)
(***************************************************************************)
CanvasUrls == {<<>>, URL_A, URL_B}

\* the parent renders the component with another url: the cleanup of the
\* previous effect run, then the effect (lines 63-112)
UrlChanges(url) ==
  /\ canvas.mounted
  /\ url # canvas.url
  /\ Len(canvas.loads) < MaxLoads
  /\ canvas' = LoadEffect([EffectCleanup(canvas) EXCEPT !.url = url])
  /\ UNCHANGED <<CACHE, clock, rev, req, page>>

\* the component is unmounted: the cleanup of the last effect run
Unmount ==
  /\ canvas.mounted
  /\ canvas' = [EffectCleanup(canvas) EXCEPT !.mounted = FALSE]
  /\ UNCHANGED <<CACHE, clock, rev, req, page>>

\* the invocation i ends
Ended(c, i) ==
  [c EXCEPT !.loads[i].pc = "done", !.loads[i].endedUnder = Len(c.loads)]

\* lines 91-100
OnLoaded(c, i) ==
  IF ~c.loads[i].cancelled
  THEN [Ended(c, i) EXCEPT !.state = LoadedViewerState(c.loads[i].url), !.status = "ready"]
  ELSE Ended(c, i)

\* catch (lines 101-106)
OnLoadError(c, i, message) ==
  IF ~c.loads[i].cancelled
  THEN [Ended(c, i) EXCEPT !.error = <<message>>, !.status = "error"]
  ELSE Ended(c, i)

\* the three imports resolve (lines 74-78)
ImportsResolve(i) ==
  /\ i <= Len(canvas.loads) /\ canvas.loads[i].pc = "imports"
  /\ canvas' = [canvas EXCEPT !.loads[i].pc = "loader"]
  /\ UNCHANGED <<CACHE, clock, rev, req, page>>

\* one of the imports rejects
ImportsReject(i) ==
  /\ i <= Len(canvas.loads) /\ canvas.loads[i].pc = "imports"
  /\ canvas' = OnLoadError(canvas, i, "import failed")
  /\ UNCHANGED <<CACHE, clock, rev, req, page>>

\* loadOmeroMultiscales resolves (line 79) and the layer is built
LoaderResolves(i) ==
  /\ i <= Len(canvas.loads) /\ canvas.loads[i].pc = "loader"
  /\ canvas' = OnLoaded(canvas, i)
  /\ UNCHANGED <<CACHE, clock, rev, req, page>>

\* loadOmeroMultiscales rejects, or lines 80-90 throw
LoaderRejects(i) ==
  /\ i <= Len(canvas.loads) /\ canvas.loads[i].pc = "loader"
  /\ canvas' = OnLoadError(canvas, i, "load failed")
  /\ UNCHANGED <<CACHE, clock, rev, req, page>>

\* the canvas after its first render and the first run of its effect
InitCanvas ==
  /\ CACHE = [k \in {} |-> 0]
  /\ clock = 0
  /\ rev = 0
  /\ req = [r \in RequestIds |-> Idle]
  /\ page = LoadFeaturesEffect(HomePage(<<>>))
  /\ \E url \in CanvasUrls : canvas = LoadEffect(VivCanvas(url))

NextCanvas ==
  \/ \E url \in CanvasUrls : UrlChanges(url)
  \/ Unmount
  \/ \E i \in 1..MaxLoads : ImportsResolve(i)
  \/ \E i \in 1..MaxLoads : ImportsReject(i)
  \/ \E i \in 1..MaxLoads : LoaderResolves(i)
  \/ \E i \in 1..MaxLoads : LoaderRejects(i)

SpecCanvas == InitCanvas /\ [][NextCanvas]_vars

(***************************************************************************)
(* Vocabulary of the properties                                            *)
(***************************************************************************)
Finished(rec) == rec.pc = "done"

\* the request came as GET with a url parameter that is a non-empty string
HasUrl(rec) == rec.method = "GET" /\ Truthy(StringOrUndefined(rec.query.url))

\* the step takes a new request into place r
Arrives(r) == req[r].pc \in {"idle", "done"} /\ req'[r] # req[r]

\* the step is the successful end of the pipeline of invocation r
Completes(r) == req[r].pc = "arrayGet" /\ req'[r].pc = "done" /\ req'[r].status = 200

\* the limit the interface documents: a positive integer, else MAX_LIMIT
DocumentedLimit(limitParam) ==
  LET n == Number(limitCandidate(limitParam)) IN
  IF IsInteger(n) /\ n.v10 > 0 THEN MathMin(n, Num(MAX_LIMIT)) ELSE Num(MAX_LIMIT)

\* the invocation has computed its effective limit (line 97)
LimitKnown(rec) == rec.pc \in {"getItem", "listObs", "openArray", "arrayGet"}

\* the invocation answered 200 with a payload its own pipeline run built
Built(rec) == Finished(rec) /\ rec.status = 200 /\ ~rec.fromCache

\* the number of rows the pipeline run iterated (line 108)
RowsRead(rec) == Len(rec.data[rec.columns[1]])

\* row i (from 0) of the table of the invocation, as the remote store holds it
RowOf(rec, i) == [c \in Range(rec.columns) |-> RemoteCell(rec.name, c, i)]

\* the positions in the response of the features built from a row
FeaturesOf(rec, row) ==
  {k \in 1..Len(rec.body.features) : rec.body.features[k].properties = row}

\* the polygon-text field of the row is a string with something in it
\* besides white space
HasText(row) ==
  Field(row, POLYGON_WKT).t = "string" /\ Trim(Field(row, POLYGON_WKT).s) # <<>>

\* how many times the invocation issued the store call
Count(rec, call) == Cardinality({i \in 1..Len(rec.calls) : rec.calls[i] = call})

\* the invocation failed for a reason other than a rejected store call
\* after issuing exactly these store calls
FailedAfter(rec, calls) ==
  /\ Finished(rec) /\ rec.status = 500 /\ rec.calls = calls
  /\ rec.body.error # "fetch failed"

\* the column order as documented: the declared order when it is present
\* and non-empty, in every other case the visible columns of the listing
DocumentedColumns(url, name) ==
  IF RemoteAttrs(url, name).order # <<>> THEN RemoteAttrs(url, name).order
  ELSE ListedColumns(RemoteObs(url, name))

\* the table a request for (url, tableName) reads
ResolvedName(url, tableName) ==
  IF tableName.t = "string" /\ tableName.v[1] # <<>> THEN tableName.v[1]
  ELSE FirstDir(RemoteTables(url))

\* the row resolves to a geometry by the precedence polygon text, then point
Resolves(row) ==
  IF HasText(row) THEN parseWkt(Trim(Field(row, POLYGON_WKT).s)).ok
  ELSE ~CellToNumber(Field(row, X)).nan /\ ~CellToNumber(Field(row, Y)).nan

(***************************************************************************)
(* C1.  A GET request whose url is not a parseable absolute http or https  *)
(* URL is answered 500 with an error message, never 200, and issues no     *)
(* store call, whatever the cache holds.                                   *)
(***************************************************************************)
C1_InvalidUrlRejected ==
  \A r \in RequestIds :
    (Finished(req[r]) /\ HasUrl(req[r]) /\ assertHttpUrl(req[r].url) # "ok") =>
      /\ req[r].status = 500
      /\ req[r].body.type = "error"
      /\ req[r].calls = <<>>

C3_ServedEntryOfSameRequest ==
  \A r \in RequestIds :
    (Finished(req[r]) /\ req[r].fromCache) =>
      req[r].served.by =
        Origin(req[r].url, req[r].tableName, EffectiveLimit(req[r].query.limit))

(***************************************************************************)
(* C4.  Two requests with the same url and table whose limits clamp to the *)
(* same effective limit use the same cache entry: the second one, arriving *)
(* within the freshness window of the first, is served from the cache.     *)
(***************************************************************************)
C4_SameEffectiveLimitSameEntry ==
  [][\A r, s \in RequestIds :
       (/\ Arrives(r) /\ HasUrl(req'[r])
        /\ Finished(req[s]) /\ req[s].status = 200 /\ ~req[s].fromCache
        /\ req'[r].query.url = req[s].query.url
        /\ StringOrUndefined(req'[r].query.table) = req[s].tableName
        /\ EffectiveLimit(req'[r].query.limit) = EffectiveLimit(req[s].query.limit)
        /\ clock - req[s].now < CACHE_TTL_MS)
       => (Finished(req'[r]) /\ req'[r].fromCache)]_vars

(***************************************************************************)
(* C5.  A stale entry is never served: an entry is served only when        *)
(* now - timestamp < CACHE_TTL_MS at the lookup; and the entry a           *)
(* successful pipeline run writes is fresh when it is written.             *)
(***************************************************************************)
C5_NeverStale ==
  /\ \A r \in RequestIds :
       (Finished(req[r]) /\ req[r].fromCache) =>
         req[r].now - req[r].served.timestamp < CACHE_TTL_MS
  /\ \A k \in DOMAIN CACHE :
       CACHE[k].writtenAt - CACHE[k].timestamp < CACHE_TTL_MS

(***************************************************************************)
(* C6.  The timestamp of a cache entry is the time at which the entry was  *)
(* written, so that the entry is served for CACHE_TTL_MS from its writing. *)
(***************************************************************************)
C6_TimestampIsCreationTime ==
  \A k \in DOMAIN CACHE : CACHE[k].timestamp = CACHE[k].writtenAt

(***************************************************************************)
(* C7.  No coalescing of concurrent misses: every invocation that misses   *)
(* issues its own store calls; when one completes, the single entry at its *)
(* key becomes its own payload (the last writer wins), no other key        *)
(* changes, and it answers with the payload of its own reads.              *)
(***************************************************************************)
C7_LastWriterWins ==
  [][\A r \in RequestIds :
       Completes(r) =>
         /\ req'[r].body = FeatureResponse(req'[r].columns, req'[r].data)
         /\ Len(req'[r].calls) >= 4 /\ req'[r].calls[1] = "containsItem"
         /\ req[r].cacheKey \in DOMAIN CACHE'
         /\ CACHE'[req[r].cacheKey].payload = req'[r].body
         /\ DOMAIN CACHE' = DOMAIN CACHE \cup {req[r].cacheKey}
         /\ \A k \in DOMAIN CACHE : k # req[r].cacheKey => CACHE'[k] = CACHE[k]]_vars

\* two invocations missed on the same key, each ran its pipeline and got a
\* payload of its own, and the entry holds the payload of one of them only
C7_Witness ==
  \E r, s \in RequestIds :
    /\ r # s
    /\ Finished(req[r]) /\ req[r].status = 200 /\ ~req[r].fromCache
    /\ Finished(req[s]) /\ req[s].status = 200 /\ ~req[s].fromCache
    /\ req[r].cacheKey = req[s].cacheKey
    /\ req[r].now = req[s].now
    /\ req[r].body # req[s].body
    /\ CACHE[req[r].cacheKey].payload = req[s].body

(***************************************************************************)
(* C8.  The number of features of a 200 response is at most                *)
(* min(limit, MAX_LIMIT, total rows); it never exceeds MAX_LIMIT.          *)
(***************************************************************************)
C8_FeatureCountBounded ==
  \A r \in RequestIds :
    (Finished(req[r]) /\ req[r].status = 200 /\ ~req[r].fromCache) =>
      /\ Len(req[r].body.features) <= MAX_LIMIT
      /\ 10 * Len(req[r].body.features) <= DocumentedLimit(req[r].query.limit).v10
      /\ Len(req[r].body.features) <= req[r].total

(***************************************************************************)
(* C9.  For every value of the limit parameter the effective limit used    *)
(* for the column reads is min(requested limit, MAX_LIMIT) and lies in     *)
(* 0 .. MAX_LIMIT.                                                         *)
(***************************************************************************)
C9_EffectiveLimitInRange ==
  \A r \in RequestIds :
    LimitKnown(req[r]) =>
      /\ 0 <= req[r].limit.v10
      /\ req[r].limit.v10 <= 10 * MAX_LIMIT
      /\ req[r].limit = DocumentedLimit(req[r].query.limit)

(***************************************************************************)
(* C10.  When the limit parameter is not a positive integer (absent,       *)
(* non-numeric, zero, negative, fractional) the effective limit is         *)
(* MAX_LIMIT.                                                              *)
(***************************************************************************)
C10_DefaultLimit ==
  \A r \in RequestIds :
    LET n == Number(limitCandidate(req[r].query.limit)) IN
    (LimitKnown(req[r]) /\ ~(IsInteger(n) /\ n.v10 > 0)) =>
      req[r].limit = Num(MAX_LIMIT)

(***************************************************************************)
(* C11.  A request with a method other than GET is answered 405 with the   *)
(* header Allow: GET, whether or not it has a url; a GET request whose url *)
(* is missing, empty or not a single string is answered 400; neither       *)
(* issues a store call.                                                    *)
(***************************************************************************)
C11_MethodThenUrl ==
  \A r \in RequestIds :
    Finished(req[r]) =>
      /\ req[r].method # "GET" =>
            req[r].status = 405 /\ req[r].allow = "GET" /\ req[r].calls = <<>>
      /\ (req[r].method = "GET"
           /\ (req[r].query.url.t # "string" \/ req[r].query.url.v = <<<<>>>>)) =>
            req[r].status = 400 /\ req[r].allow = "" /\ req[r].calls = <<>>

\* a POST request without url was answered 405: the method check came first
C11_Witness ==
  \E r \in RequestIds :
    /\ Finished(req[r]) /\ req[r].method = "POST"
    /\ req[r].query.url.t = "undefined"
    /\ req[r].status = 405 /\ req[r].allow = "GET"

(***************************************************************************)
(* C12 (as stated).  A row whose polygon-text field is a non-empty string  *)
(* that the parser rejects yields no feature, also when its x and y are    *)
(* finite numbers; the response is 200 and every row that resolves to a    *)
(* geometry is among the features.                                         *)
(***************************************************************************)
C12_MalformedPolygonDropped ==
  \A r \in RequestIds :
    Built(req[r]) =>
      \A i \in 0..(RowsRead(req[r]) - 1) :
        LET row == RowOf(req[r], i)
            wkt == Field(row, POLYGON_WKT)
        IN /\ (wkt.t = "string" /\ wkt.s # <<>> /\ ~parseWkt(wkt.s).ok) =>
                FeaturesOf(req[r], row) = {}
           /\ Resolves(row) => FeaturesOf(req[r], row) # {}

(***************************************************************************)
(* C12 (amended).  A row whose polygon-text field is a string that holds   *)
(* more than white space and that the parser rejects yields no feature,    *)
(* also when its x and y are finite numbers; the response is 200 and every *)
(* row that resolves to a geometry is among the features.  (A field of     *)
(* white space only counts as no polygon text: the row falls back to the   *)
(* point.)                                                                 *)
(***************************************************************************)
C12_UnparsablePolygonDropped ==
  \A r \in RequestIds :
    Built(req[r]) =>
      \A i \in 0..(RowsRead(req[r]) - 1) :
        LET row == RowOf(req[r], i)
            wkt == Field(row, POLYGON_WKT)
        IN /\ (HasText(row) /\ ~parseWkt(Trim(wkt.s)).ok) =>
                FeaturesOf(req[r], row) = {}
           /\ Resolves(row) => FeaturesOf(req[r], row) # {}

\* a 200 response for table g, all rows read: the row with the malformed
\* polygon text and finite x, y is absent, the rows around it are present
C12_Witness ==
  \E r \in RequestIds :
    /\ Built(req[r]) /\ req[r].name = TABLE_G /\ RowsRead(req[r]) = GeometryRows
    /\ Field(RowOf(req[r], 2), POLYGON_WKT) = StringCell(WKT_BROKEN)
    /\ ~CellToNumber(Field(RowOf(req[r], 2), X)).nan
    /\ ~CellToNumber(Field(RowOf(req[r], 2), Y)).nan
    /\ FeaturesOf(req[r], RowOf(req[r], 2)) = {}
    /\ FeaturesOf(req[r], RowOf(req[r], 1)) # {}
    /\ FeaturesOf(req[r], RowOf(req[r], 4)) # {}

(***************************************************************************)
(* C13.  A row without polygon text (the field absent or the empty string) *)
(* whose x and y both coerce to finite numbers yields exactly one feature, *)
(* with geometry Point and coordinates [x, y] in that order; when x or y   *)
(* does not coerce to a finite number the row yields no feature.           *)
(***************************************************************************)
C13_PointFallback ==
  \A r \in RequestIds :
    Built(req[r]) =>
      \A i \in 0..(RowsRead(req[r]) - 1) :
        LET row == RowOf(req[r], i)
            wkt == Field(row, POLYGON_WKT)
            x == CellToNumber(Field(row, X))
            y == CellToNumber(Field(row, Y))
        IN (wkt.t # "string" \/ wkt.s = <<>>) =>
             IF ~x.nan /\ ~y.nan
             THEN /\ Cardinality(FeaturesOf(req[r], row)) = 1
                  /\ \A k \in FeaturesOf(req[r], row) :
                       req[r].body.features[k].geometry =
                         [type |-> "Point", coordinates |-> <<<<x, y>>>>]
             ELSE FeaturesOf(req[r], row) = {}

\* a 200 response for table g, all rows read: row 0 (no text, x = 0, y = 1)
\* is a Point at [0, 1] and row 3 (no text, x not a number) is absent
C13_Witness ==
  \E r \in RequestIds :
    /\ Built(req[r]) /\ req[r].name = TABLE_G /\ RowsRead(req[r]) = GeometryRows
    /\ \E k \in FeaturesOf(req[r], RowOf(req[r], 0)) :
         req[r].body.features[k].geometry =
           [type |-> "Point", coordinates |-> <<<<Num(0), Num(1)>>>>]
    /\ Field(RowOf(req[r], 3), X) = NaNCell
    /\ FeaturesOf(req[r], RowOf(req[r], 3)) = {}

(***************************************************************************)
(* C14.  A row with well-formed polygon text yields a feature whose        *)
(* geometry is the Polygon parsed from the text, also when x and y are     *)
(* valid; every geometry of a response is a Point or a Polygon.            *)
(***************************************************************************)
C14_PolygonOrPoint ==
  \A r \in RequestIds :
    Built(req[r]) =>
      /\ \A i \in 0..(RowsRead(req[r]) - 1) :
           LET row == RowOf(req[r], i)
               parsed == parseWkt(Trim(Field(row, POLYGON_WKT).s))
           IN (HasText(row) /\ parsed.ok) =>
                /\ FeaturesOf(req[r], row) # {}
                /\ \A k \in FeaturesOf(req[r], row) :
                     /\ req[r].body.features[k].geometry = parsed.geometry
                     /\ req[r].body.features[k].geometry.type = "Polygon"
      /\ \A k \in 1..Len(req[r].body.features) :
           req[r].body.features[k].geometry.type \in {"Point", "Polygon"}

(***************************************************************************)
(* C15.  In every 200 response columns is the full resolved column order   *)
(* of the table the payload was built from, however many rows were dropped *)
(* (also when features is empty).                                          *)
(***************************************************************************)
C15_ColumnsAreResolvedOrder ==
  \A r \in RequestIds :
    (Finished(req[r]) /\ req[r].status = 200) =>
      LET by == IF req[r].fromCache THEN req[r].served.by
                ELSE Origin(req[r].url, req[r].tableName, req[r].limit)
      IN /\ req[r].body.columns =
              DocumentedColumns(by.url, ResolvedName(by.url, by.tableName))
         /\ req[r].body.columns # <<>>

\* a 200 response for table n: every row was dropped and columns is complete
C15_Witness ==
  \E r \in RequestIds :
    /\ Built(req[r]) /\ req[r].name = TABLE_N /\ RowsRead(req[r]) = 2
    /\ req[r].body.features = <<>>
    /\ req[r].body.columns = <<POLYGON_WKT>>

(***************************************************************************)
(* C16.  An invocation ends in one of three ways only: served from the     *)
(* cache; 200 after the read of the last column, with every column read;   *)
(* or an error response (400, 405, 500) that carries {error: message}, no  *)
(* features, and leaves the cache as it was.  Once it has ended its        *)
(* response does not change.                                               *)
(***************************************************************************)
C16_FailureAbortsRequest ==
  [][\A r \in RequestIds :
       /\ (req'[r] # req[r] /\ Finished(req'[r])) =>
            \/ req'[r].fromCache /\ req'[r].status = 200
            \/ /\ req'[r].status = 200 /\ req'[r].body.type = "FeatureCollection"
               /\ req[r].pc = "arrayGet" /\ req[r].column = Len(req[r].columns)
               /\ DOMAIN req'[r].data = Range(req'[r].columns)
            \/ /\ req'[r].status \in {400, 405, 500}
               /\ req'[r].body.type = "error" /\ req'[r].body.error # ""
               /\ req'[r].body.features = <<>>
               /\ CACHE' = CACHE
       /\ (Finished(req[r]) /\ Finished(req'[r]) /\ ~Arrives(r)) => req'[r] = req[r]]_vars

\* an invocation that had read a column when a later read failed: it
\* answered 500 with an error and no features
C16_Witness ==
  \E r \in RequestIds :
    /\ Finished(req[r]) /\ req[r].status = 500
    /\ DOMAIN req[r].data # {} /\ req[r].column > 1
    /\ req[r].body.type = "error" /\ req[r].body.features = <<>>
    /\ req[r].cacheKey \notin DOMAIN CACHE

(***************************************************************************)
(* C17.  The columns of a table are its declared column order when that is *)
(* present and non-empty; in every other case (absent, empty, metadata     *)
(* missing) the visible column-like entries of the listing of its          *)
(* observation root, in listing order; the request fails at this point     *)
(* exactly when that list is empty.                                        *)
(***************************************************************************)
C17_ColumnOrder ==
  \A r \in RequestIds :
    LET rec == req[r]
        expected == DocumentedColumns(rec.url, rec.name)
    IN /\ (rec.pc \in {"openArray", "arrayGet"} \/ Built(rec)) =>
            rec.columns = expected /\ expected # <<>>
       /\ (Finished(rec) /\ rec.status = 500 /\ rec.body.error # "fetch failed"
           /\ rec.calls # <<>>
           /\ rec.calls[Len(rec.calls)] \in {"getItem", "listObs"})
          => expected = <<>>

(***************************************************************************)
(* C18.  An explicit table name (a single non-empty string) is used as it  *)
(* is, and the tables root is not listed; otherwise the table is the first *)
(* entry of kind directory in the listing of the tables root; the request  *)
(* fails at this point when the tables root is absent or, no name being    *)
(* given, holds no directory.                                              *)
(***************************************************************************)
C18_TableResolution ==
  \A r \in RequestIds :
    LET rec == req[r]
        explicit == rec.tableName.t = "string" /\ rec.tableName.v[1] # <<>>
        children == RemoteTables(rec.url)
        noDir == \A i \in 1..Len(children) : children[i].kind # "dir"
    IN /\ rec.name # <<>> =>
            /\ RemoteHasTables(rec.url)
            /\ IF explicit
               THEN rec.name = rec.tableName.v[1]
                    /\ \A i \in 1..Len(rec.calls) : rec.calls[i] # "listTables"
               ELSE /\ rec.calls[2] = "listTables"
                    /\ \E i \in 1..Len(children) :
                         /\ children[i].kind = "dir"
                         /\ children[i].pathSegment = rec.name
                         /\ \A j \in 1..(i - 1) : children[j].kind # "dir"
       /\ (rec.pc \in Pending \ {"containsItem"} /\ rec.name = <<>>) =>
            rec.pc = "listTables" /\ ~explicit /\ RemoteHasTables(rec.url)
       /\ FailedAfter(rec, <<"containsItem">>) => ~RemoteHasTables(rec.url)
       /\ FailedAfter(rec, <<"containsItem", "listTables">>) =>
            ~explicit /\ RemoteHasTables(rec.url) /\ noDir
       /\ (Finished(rec) /\ rec.calls # <<>> /\ rec.body.error # "fetch failed"
           /\ (~RemoteHasTables(rec.url) \/ (~explicit /\ noDir))) =>
            rec.status = 500 /\ rec.name = <<>>

\* a request without table name got the first directory of the tables
\* root, which is not the first entry of the listing
C18_Witness ==
  \E r \in RequestIds :
    /\ Built(req[r]) /\ req[r].tableName.t = "undefined"
    /\ req[r].name = TABLE_D
    /\ RemoteTables(req[r].url)[1].kind = "file"
    /\ RemoteTables(req[r].url)[2] = Entry(TABLE_D, "dir")

(***************************************************************************)
(* C19.  The features of a response are the rows 0 .. n-1 read that        *)
(* resolve to a geometry, in increasing row order and without placeholder  *)
(* for a dropped row; the properties of a feature are the values of its    *)
(* row index in every column.                                              *)
(***************************************************************************)
C19_FeaturesInRowOrder ==
  \A r \in RequestIds :
    Built(req[r]) =>
      LET rec == req[r]
          kept == {i \in 0..(RowsRead(rec) - 1) : Resolves(RowOf(rec, i))}
      IN /\ Len(rec.body.features) = Cardinality(kept)
         /\ \A k \in 1..Len(rec.body.features) :
              \E i \in kept :
                /\ Cardinality({j \in kept : j < i}) = k - 1
                /\ rec.body.features[k].properties = RowOf(rec, i)
                /\ DOMAIN rec.body.features[k].properties = Range(rec.columns)

\* a 200 response for table g: rows 2 and 3 were dropped, so the third
\* feature is row 4 and the fourth is row 5
C19_Witness ==
  \E r \in RequestIds :
    /\ Built(req[r]) /\ req[r].name = TABLE_G /\ RowsRead(req[r]) = GeometryRows
    /\ Len(req[r].body.features) = 4
    /\ req[r].body.features[2].properties = RowOf(req[r], 1)
    /\ req[r].body.features[3].properties = RowOf(req[r], 4)
    /\ req[r].body.features[4].properties = RowOf(req[r], 5)

(***************************************************************************)
(* C20.  No cancellation: an invocation whose client has closed the        *)
(* connection while a store call was pending goes on to its end; it ends   *)
(* either with an error of the pipeline or, all its calls having           *)
(* succeeded, with its payload written into the cache under its key.       *)
(***************************************************************************)
C20_NoCancellation ==
  \A r \in RequestIds :
    /\ [](Finished(req[r]) /\ req[r].disconnected =>
            \/ req[r].status = 500 /\ req[r].body.type = "error"
            \/ /\ req[r].status = 200
               /\ req[r].cacheKey \in DOMAIN CACHE
               /\ CACHE[req[r].cacheKey].payload = req[r].body)
    /\ (req[r].disconnected /\ req[r].pc \in Pending) ~> Finished(req[r])

\* an invocation whose client went away before the first store call
\* returned has completed all its calls and its payload is in the cache
C20_Witness ==
  \E r \in RequestIds :
    /\ Finished(req[r]) /\ req[r].disconnected /\ req[r].status = 200
    /\ Len(req[r].calls) >= 4
    /\ req[r].cacheKey \in DOMAIN CACHE
    /\ CACHE[req[r].cacheKey].payload = req[r].body

(***************************************************************************)
(* C21.  For each column the reader requests the range [0, min(effective   *)
(* limit, array length)): the end index is an integer, not negative and    *)
(* not greater than the array length.                                      *)
(***************************************************************************)
C21_ReadRange ==
  \A r \in RequestIds :
    req[r].pc = "arrayGet" =>
      /\ req[r].end = MathMin(req[r].limit, Num(req[r].total))
      /\ IsInteger(req[r].end)
      /\ 0 <= req[r].end.v10
      /\ req[r].end.v10 <= 10 * req[r].total

(***************************************************************************)
(* C22.  The reads of the columns of one request are issued concurrently:  *)
(* while the read of the first column is pending, the reads of the later   *)
(* columns have been issued as well.                                       *)
(***************************************************************************)
C22_ColumnReadsConcurrent ==
  \A r \in RequestIds :
    (/\ req[r].pc \in {"openArray", "arrayGet"}
     /\ req[r].column = 1 /\ Len(req[r].columns) > 1)
    => Count(req[r], "openArray") = Len(req[r].columns)

(***************************************************************************)
(* C23.  No retry: an invocation issues the tables-root check, the tables  *)
(* listing, the metadata read and the observation listing at most once     *)
(* each and one array read per column; a failure issues no further call,   *)
(* and an invocation that has ended issues none.                           *)
(***************************************************************************)
C23_NoRetry ==
  [][\A r \in RequestIds :
       LET new == req'[r] IN
       /\ Count(new, "containsItem") <= 1 /\ Count(new, "listTables") <= 1
       /\ Count(new, "getItem") <= 1 /\ Count(new, "listObs") <= 1
       /\ Count(new, "openArray") = new.column
       /\ new.column <= Len(new.columns)
       /\ Count(new, "arrayGet") <= Count(new, "openArray")
       /\ (Finished(req[r]) /\ ~Arrives(r)) => new.calls = req[r].calls
       /\ (req[r].pc \in Pending /\ Finished(new) /\ new.status = 500) =>
            new.calls = req[r].calls]_vars

\* an invocation whose third store call was rejected: it ended 500 having
\* issued three calls, each once
C23_Witness ==
  \E r \in RequestIds :
    /\ Finished(req[r]) /\ req[r].status = 500
    /\ req[r].body.error = "fetch failed"
    /\ req[r].calls = <<"containsItem", "listTables", "getItem">>

(***************************************************************************)
(* C24.  A request that fails with 500 leaves the cache exactly as it was  *)
(* (no entry created, the entry at its key neither removed nor modified);  *)
(* an entry appears or changes only in the step in which an invocation     *)
(* completes its pipeline with success, and it holds that payload.         *)
(***************************************************************************)
C24_FailureLeavesCache ==
  [][/\ \A r \in RequestIds :
          (req'[r] # req[r] /\ Finished(req'[r]) /\ req'[r].status = 500) =>
            CACHE' = CACHE
     /\ \A k \in DOMAIN CACHE' :
          (k \notin DOMAIN CACHE \/ CACHE'[k] # CACHE[k]) =>
            \E r \in RequestIds :
              /\ Completes(r) /\ req[r].cacheKey = k
              /\ CACHE'[k].payload = req'[r].body
              /\ req'[r].body.type = "FeatureCollection"]_vars

\* a request found the entry at its key stale, ran the pipeline and failed:
\* the stale entry is still there
C24_Witness ==
  \E r \in RequestIds :
    /\ Finished(req[r]) /\ req[r].status = 500 /\ req[r].calls # <<>>
    /\ req[r].cacheKey \in DOMAIN CACHE
    /\ CACHE[req[r].cacheKey].writtenAt <= req[r].now
    /\ req[r].now - CACHE[req[r].cacheKey].timestamp >= CACHE_TTL_MS

(***************************************************************************)
(* C25.  Every request receives exactly one response, with status 200,     *)
(* 400, 405 or 500: an invocation has a status and a body exactly when it   *)
(* has ended, they do not change afterwards, and, every store call being   *)
(* answered or rejected in the end, every suspended invocation ends.       *)
(***************************************************************************)
C25_OneResponse ==
  /\ [](\A r \in RequestIds :
          /\ Finished(req[r]) <=> req[r].status # 0
          /\ Finished(req[r]) =>
               req[r].status \in {200, 400, 405, 500} /\ req[r].body # NoBody
          /\ ~Finished(req[r]) => req[r].body = NoBody)
  /\ [][\A r \in RequestIds :
          (Finished(req[r]) /\ ~Arrives(r)) =>
            req'[r].status = req[r].status /\ req'[r].body = req[r].body]_vars
  /\ \A r \in RequestIds : (req[r].pc \in Pending) ~> Finished(req[r])

\* an invocation whose last store call was rejected has answered 500
C25_Witness ==
  \E r \in RequestIds :
    /\ Finished(req[r]) /\ req[r].status = 500
    /\ req[r].body = ErrorBody("fetch failed")
    /\ Len(req[r].calls) >= 4

(***************************************************************************)
(* C26.  A request whose method is not GET, or whose url is missing, is    *)
(* answered 405 or 400 without a cache lookup, without a cache write and   *)
(* without a store call.                                                   *)
(***************************************************************************)
C26_RefusedTouchNothing ==
  [][\A r \in RequestIds :
       LET new == req'[r] IN
       (/\ Arrives(r)
        /\ (new.method # "GET"
            \/ new.query.url.t # "string" \/ new.query.url.v = <<<<>>>>))
       => /\ new.status = (IF new.method # "GET" THEN 405 ELSE 400)
          /\ new.body.type = "error"
          /\ ~new.fromCache /\ new.served = NoEntry
          /\ new.calls = <<>>
          /\ CACHE' = CACHE]_vars

\* a POST request whose key has an entry in the cache was answered 405
C26_Witness ==
  \E r \in RequestIds :
    /\ Finished(req[r]) /\ req[r].method = "POST" /\ req[r].status = 405
    /\ cacheKey(TemplateText(StringOrUndefined(req[r].query.url)),
                StringOrUndefined(req[r].query.table), req[r].query.limit)
         \in DOMAIN CACHE

(***************************************************************************)
(* C27.  Across the writes to one cache key the stored timestamp never     *)
(* decreases, for any interleaving of the requests on that key.            *)
(***************************************************************************)
C27_TimestampMonotone ==
  [][\A k \in DOMAIN CACHE \cap DOMAIN CACHE' :
       CACHE'[k].timestamp >= CACHE[k].timestamp]_vars

(***************************************************************************)
(* C28.  No step removes a key from the cache; an entry, stale or fresh,   *)
(* stays as it is until an invocation for the same key completes its       *)
(* pipeline with success and overwrites it.                                *)
(***************************************************************************)
C28_KeysOnlyGrow ==
  [][/\ DOMAIN CACHE \subseteq DOMAIN CACHE'
     /\ \A k \in DOMAIN CACHE :
          CACHE'[k] # CACHE[k] =>
            \E r \in RequestIds : Completes(r) /\ req[r].cacheKey = k]_vars

\* a lookup found the entry at its key stale and went on to the pipeline:
\* the stale entry is still in the map
C28_Witness ==
  \E r \in RequestIds :
    /\ req[r].pc \in Pending
    /\ req[r].cacheKey \in DOMAIN CACHE
    /\ CACHE[req[r].cacheKey].writtenAt <= req[r].now
    /\ req[r].now - CACHE[req[r].cacheKey].timestamp >= CACHE_TTL_MS

(***************************************************************************)
(* C29.  A row without polygon text whose x or y is absent or null yields  *)
(* no feature: a Point is built only from x and y that are both present,   *)
(* and no coordinate is a 0 put in the place of a missing value.           *)
(***************************************************************************)
C29_NoPointFromMissing ==
  \A r \in RequestIds :
    Built(req[r]) =>
      \A i \in 0..(RowsRead(req[r]) - 1) :
        LET row == RowOf(req[r], i) IN
        (/\ ~HasText(row)
         /\ (Field(row, X).t \in {"undefined", "null"}
             \/ Field(row, Y).t \in {"undefined", "null"}))
        => FeaturesOf(req[r], row) = {}

C31_SettledShowsActive ==
  (\A i \in 1..Len(page.loads) : page.loads[i].pc = "done") =>
    IF page.activeUrl = <<>>
    THEN page.features = <<>> /\ page.columns = <<>>
    ELSE LET last == page.loads[Len(page.loads)] IN
         /\ last.url = page.activeUrl
         /\ last.outcome = "ok" =>
              /\ page.features = FeatureResponseFor(page.activeUrl).features
              /\ page.columns = FeatureResponseFor(page.activeUrl).columns
         /\ last.outcome = "failed" =>
              page.features = <<>> /\ page.columns = <<>>

(***************************************************************************)
(* C32.  In the viewer page, loading is true exactly when at least one     *)
(* feature request is in flight: the completion of the first of two        *)
(* overlapping loads does not clear it while the second is pending.        *)
(***************************************************************************)
C32_LoadingIffInFlight ==
  page.loading <=> \E i \in 1..Len(page.loads) : page.loads[i].pc # "done"

(***************************************************************************)
(* C33.  In VivCanvas, status, error and state change only when the url    *)
(* prop changes (the effect runs) or when the load of the latest effect    *)
(* run ends while the component is mounted, and then status becomes ready  *)
(* or error: a load whose url has been replaced, or that ends after the    *)
(* unmount, updates nothing, in whatever order the loads end.              *)
(***************************************************************************)
C33_StaleLoadUpdatesNothing ==
  [][(\/ canvas'.status # canvas.status
      \/ canvas'.error # canvas.error
      \/ canvas'.state # canvas.state)
     => \/ canvas'.url # canvas.url
        \/ /\ canvas.mounted /\ canvas'.url = canvas.url
           /\ Len(canvas'.loads) = Len(canvas.loads)
           /\ canvas.loads[Len(canvas.loads)].pc # "done"
           /\ canvas'.loads[Len(canvas.loads)].pc = "done"
           /\ canvas.loads[Len(canvas.loads)].url = canvas.url
           /\ canvas'.status \in {"ready", "error"}]_vars

\* a load for a url that had been replaced has ended, with success as far as
\* the loader goes, while the load for the newer url is still pending: the
\* status is still loading and no state of the older url is shown
C33_Witness ==
  \E i \in 1..Len(canvas.loads) :
    /\ canvas.loads[i].pc = "done" /\ canvas.loads[i].url # <<>>
    /\ canvas.loads[i].endedUnder > i
    /\ canvas.loads[i].url # canvas.url
    /\ canvas.loads[Len(canvas.loads)].pc = "loader"
    /\ canvas.status = "loading" /\ canvas.state = <<>> /\ canvas.error = <<>>

(***************************************************************************)
(* C34.  In the viewer page, the step in which a feature load fails sets   *)
(* the error message and resets features, columns, colorBy and colorMap    *)
(* to empty; the step that starts a load for a non-empty url clears the    *)
(* error.                                                                  *)
(***************************************************************************)
C34_FailureResetsDisplay ==
  [][/\ (\E i \in 1..Len(page.loads) :
           /\ Len(page'.loads) = Len(page.loads)
           /\ page.loads[i].outcome = "pending"
           /\ page'.loads[i].outcome = "failed")
        => /\ page'.error # <<>>
           /\ page'.features = <<>> /\ page'.columns = <<>>
           /\ page'.colorBy = <<>> /\ page'.colorMap = EmptyColorMap
     /\ Len(page'.loads) > Len(page.loads)
        => /\ page'.error = <<>>
           /\ page'.loads[Len(page'.loads)].url # <<>>]_vars

\* a dataset was displayed, then the load of another url failed: the
\* message is shown and nothing of the first dataset is left
C34_Witness ==
  \E i, j \in 1..Len(page.loads) :
    /\ page.loads[i].outcome = "ok" /\ page.loads[j].outcome = "failed"
    /\ page.loads[j].order = page.loads[i].order + 1
    /\ page.loads[j].order = Cardinality({k \in 1..Len(page.loads) : page.loads[k].order > 0})
    /\ page.activeUrl = page.loads[j].url
    /\ page.error # <<>> /\ page.features = <<>> /\ page.colorMap = EmptyColorMap

====
